---- MODULE Spec2Model ----
(***************************************************************************)
(* GraphQL tool adapters (langchain/tools/graphql/tool.py) and the GraphQL *)
(* API wrapper (langchain/utilities/graphql.py).                           *)
(*                                                                         *)
(* Text is a sequence of one-character strings.  A Python value that can   *)
(* be handed to json.dumps is a tagged record: None, a str, a list or a    *)
(* dict (an insertion-ordered sequence of key/value pairs).                *)
(***************************************************************************)
EXTENDS Integers, Sequences, FiniteSets, TLC

VARIABLES
    graphql_endpoint,   \* GraphQLAPIWrapper.graphql_endpoint
    custom_headers,     \* GraphQLAPIWrapper.custom_headers
    call,               \* the last adapter call: its input, what happened, its result
    log,                \* the collaborator calls made during the last adapter call
    checker             \* the QueryCheckerTool last constructed

vars == <<graphql_endpoint, custom_headers, call, log, checker>>

-----------------------------------------------------------------------------
(* Bounds *)

MaxTypes == 2       \* entries in __schema.types of an introspection result
MaxFields == 2      \* fields, over all types, of an introspection result
MaxVars == 2        \* input variables a supplied LLM chain declares

-----------------------------------------------------------------------------
(* Python values *)

JNull == [k |-> "null"]
JStr(s) == [k |-> "str", s |-> s]
JList(xs) == [k |-> "list", items |-> xs]
JDict(ps) == [k |-> "dict", items |-> ps]
Pair(key, val) == [key |-> key, val |-> val]

\* bool(v): None, "", [] and {} are falsy
Truthy(v) ==
    CASE v.k = "null" -> FALSE
      [] v.k = "str" -> v.s # <<>>
      [] OTHER -> v.items # <<>>

\* a or b
PyOr(a, b) == IF Truthy(a) THEN a ELSE b

\* key in d
HasKey(d, key) == \E i \in 1..Len(d.items) : d.items[i].key = key

\* d[key]
Get(d, key) ==
    LET i == CHOOSE j \in 1..Len(d.items) : d.items[j].key = key
    IN  d.items[i].val

\* d[key] = val: a new key goes last, an old key keeps its place
DictSet(d, key, val) ==
    IF HasKey(d, key)
    THEN JDict([i \in 1..Len(d.items) |->
                    IF d.items[i].key = key THEN Pair(key, val) ELSE d.items[i]])
    ELSE JDict(Append(d.items, Pair(key, val)))

-----------------------------------------------------------------------------
(* Text *)

RECURSIVE Flatten(_)
Flatten(ss) == IF ss = <<>> THEN <<>> ELSE Head(ss) \o Flatten(Tail(ss))

\* sep.join(parts)
RECURSIVE Join(_, _)
Join(sep, parts) ==
    IF parts = <<>> THEN <<>>
    ELSE IF Len(parts) = 1 THEN parts[1]
    ELSE parts[1] \o sep \o Join(sep, Tail(parts))

CommaSpace == <<",", " ">>

K_schema == <<"_", "_", "s", "c", "h", "e", "m", "a">>
K_types == <<"t", "y", "p", "e", "s">>
K_name == <<"n", "a", "m", "e">>
K_kind == <<"k", "i", "n", "d">>
K_fields == <<"f", "i", "e", "l", "d", "s">>
K_type == <<"t", "y", "p", "e">>
K_ofType == <<"o", "f", "T", "y", "p", "e">>

-----------------------------------------------------------------------------
(* json.dumps(value, indent=2) *)

\* the escapes of json's ASCII string encoder, on the characters of the model
EscapeChar(c) ==
    CASE c = "\"" -> <<"\\", "\"">>
      [] c = "\\" -> <<"\\", "\\">>
      [] c = "\n" -> <<"\\", "n">>
      [] c = "\t" -> <<"\\", "t">>
      [] c = "\r" -> <<"\\", "r">>
      [] OTHER -> <<c>>

EncodeString(s) ==
    <<"\"">> \o Flatten([i \in 1..Len(s) |-> EscapeChar(s[i])]) \o <<"\"">>

Indent(level) == [i \in 1..(2 * level) |-> " "]

NewlineIndent(level) == <<"\n">> \o Indent(level)

RECURSIVE DumpsAt(_, _)
DumpsAt(v, level) ==
    CASE v.k = "null" -> <<"n", "u", "l", "l">>
      [] v.k = "str" -> EncodeString(v.s)
      [] v.k = "list" ->
            IF v.items = <<>> THEN <<"[", "]">>
            ELSE <<"[">> \o NewlineIndent(level + 1)
                 \o Join(<<",">> \o NewlineIndent(level + 1),
                         [i \in 1..Len(v.items) |-> DumpsAt(v.items[i], level + 1)])
                 \o NewlineIndent(level) \o <<"]">>
      [] v.k = "dict" ->
            IF v.items = <<>> THEN <<"{", "}">>
            ELSE <<"{">> \o NewlineIndent(level + 1)
                 \o Join(<<",">> \o NewlineIndent(level + 1),
                         [i \in 1..Len(v.items) |->
                             EncodeString(v.items[i].key) \o <<":", " ">>
                             \o DumpsAt(v.items[i].val, level + 1)])
                 \o NewlineIndent(level) \o <<"}">>

json_dumps(v) == DumpsAt(v, 0)

\* json.loads, by which the claims say what a text parses to

JsonWs == {" ", "\n", "\t", "\r"}

ParseFail == [ok |-> FALSE, v |-> JNull, n |-> 0]
ParseOk(v, n) == [ok |-> TRUE, v |-> v, n |-> n]

RECURSIVE SkipWs(_, _)
SkipWs(s, i) == IF i <= Len(s) /\ s[i] \in JsonWs THEN SkipWs(s, i + 1) ELSE i

\* the body of a string literal from position i, up to its closing quote
RECURSIVE ParseStringBody(_, _, _)
ParseStringBody(s, i, acc) ==
    IF i > Len(s) THEN ParseFail
    ELSE IF s[i] = "\"" THEN ParseOk(acc, i + 1)
    ELSE IF s[i] = "\\" THEN
        IF i + 1 > Len(s) THEN ParseFail
        ELSE CASE s[i + 1] = "\"" -> ParseStringBody(s, i + 2, Append(acc, "\""))
               [] s[i + 1] = "\\" -> ParseStringBody(s, i + 2, Append(acc, "\\"))
               [] s[i + 1] = "n" -> ParseStringBody(s, i + 2, Append(acc, "\n"))
               [] s[i + 1] = "t" -> ParseStringBody(s, i + 2, Append(acc, "\t"))
               [] s[i + 1] = "r" -> ParseStringBody(s, i + 2, Append(acc, "\r"))
               [] OTHER -> ParseFail
    ELSE IF s[i] \in {"\n", "\t", "\r"} THEN ParseFail
    ELSE ParseStringBody(s, i + 1, Append(acc, s[i]))

RECURSIVE ParseValue(_, _)
RECURSIVE ParseElems(_, _, _)
RECURSIVE ParseMembers(_, _, _)

\* after "[" or after a ",": the next element, then "," or "]"
ParseElems(s, i, acc) ==
    LET j == SkipWs(s, i) IN
    IF j > Len(s) THEN ParseFail
    ELSE IF s[j] = "]" /\ acc = <<>> THEN ParseOk(JList(acc), j + 1)
    ELSE LET r == ParseValue(s, j) IN
         IF ~r.ok THEN ParseFail
         ELSE LET m == SkipWs(s, r.n) IN
              IF m > Len(s) THEN ParseFail
              ELSE IF s[m] = "," THEN ParseElems(s, m + 1, Append(acc, r.v))
              ELSE IF s[m] = "]" THEN ParseOk(JList(Append(acc, r.v)), m + 1)
              ELSE ParseFail

\* after "{" or after a ",": the next "key": value, then "," or "}"
ParseMembers(s, i, acc) ==
    LET j == SkipWs(s, i) IN
    IF j > Len(s) THEN ParseFail
    ELSE IF s[j] = "}" /\ acc.items = <<>> THEN ParseOk(acc, j + 1)
    ELSE IF s[j] # "\"" THEN ParseFail
    ELSE LET key == ParseStringBody(s, j + 1, <<>>) IN
         IF ~key.ok THEN ParseFail
         ELSE LET c == SkipWs(s, key.n) IN
              IF c > Len(s) \/ s[c] # ":" THEN ParseFail
              ELSE LET r == ParseValue(s, c + 1) IN
                   IF ~r.ok THEN ParseFail
                   ELSE LET m == SkipWs(s, r.n)
                            d == DictSet(acc, key.v, r.v)
                        IN  IF m > Len(s) THEN ParseFail
                            ELSE IF s[m] = "," THEN ParseMembers(s, m + 1, d)
                            ELSE IF s[m] = "}" THEN ParseOk(d, m + 1)
                            ELSE ParseFail

ParseValue(s, i) ==
    LET j == SkipWs(s, i) IN
    IF j > Len(s) THEN ParseFail
    ELSE CASE s[j] = "\"" ->
                LET r == ParseStringBody(s, j + 1, <<>>) IN
                IF r.ok THEN ParseOk(JStr(r.v), r.n) ELSE ParseFail
           [] s[j] = "n" ->
                IF j + 3 <= Len(s) /\ SubSeq(s, j, j + 3) = <<"n", "u", "l", "l">>
                THEN ParseOk(JNull, j + 4) ELSE ParseFail
           [] s[j] = "[" -> ParseElems(s, j + 1, <<>>)
           [] s[j] = "{" -> ParseMembers(s, j + 1, JDict(<<>>))
           [] OTHER -> ParseFail

\* json.loads(text): the value, or a failure when text is not one JSON document
json_loads(s) ==
    LET r == ParseValue(s, 1) IN
    IF r.ok /\ SkipWs(s, r.n) > Len(s) THEN r ELSE ParseFail

-----------------------------------------------------------------------------
(* Outcomes of a call: a return value or an exception, with the calls made *)

Event(op, arg) == [op |-> op, arg |-> arg]

Returned(v, lg) == [status |-> "returned", error |-> "None", val |-> v, log |-> lg]
Raised(e, lg) == [status |-> "raised", error |-> e, val |-> JNull, log |-> lg]

-----------------------------------------------------------------------------
(* The gql package and the endpoint: what the wrapper is built on *)

ExampleQuery == "query { allUsers { id, name, email } }"
MalformedQuery == "query { allUsers {"
NamesIntrospectionQuery == "query IntrospectionQuery { __schema { types { name } } }"
TypesIntrospectionQuery ==
    "query IntrospectionQuery { __schema { types { name kind fields { name type { name kind ofType { name kind } } } } } }"

\* gql(query): the parsed document, or GraphQLSyntaxError
gql_function(query) ==
    IF query = MalformedQuery
    THEN Raised("GraphQLSyntaxError", <<Event("gql", query)>>)
    ELSE Returned(query, <<Event("gql", query)>>)

TransportFailures == {"TransportError", "AuthError", "QueryError"}

\* what the endpoint does with one request: a result, or one of the failures
Ok(result) == [kind |-> "ok", result |-> result]
Failure(e) == [kind |-> e, result |-> JNull]

\* Client.execute(document_node)
gql_client_execute(document_node, outcome) ==
    IF outcome.kind = "ok"
    THEN Returned(outcome.result, <<Event("execute", document_node)>>)
    ELSE Raised(outcome.kind, <<Event("execute", document_node)>>)

-----------------------------------------------------------------------------
(* GraphQLAPIWrapper *)

\* a failed execution tried once more
execute_query_Retry(query, outcome) ==
    LET document_node == gql_function(query) IN
    IF document_node.status = "raised" THEN document_node
    ELSE LET result == gql_client_execute(document_node.val, outcome)
             again == gql_client_execute(document_node.val, outcome)
         IN  IF result.status = "raised"
             THEN [again EXCEPT !.log = document_node.log \o result.log \o again.log]
             ELSE [result EXCEPT !.log = document_node.log \o result.log]

\* GraphQLAPIWrapper._execute_query
execute_query(query, outcome) ==
    LET document_node == gql_function(query) IN
    IF document_node.status = "raised" THEN document_node
    ELSE LET result == gql_client_execute(document_node.val, outcome) IN
         [result EXCEPT !.log = document_node.log \o result.log]

\* GraphQLAPIWrapper.run
run(query, outcome) ==
    LET result == execute_query(query, outcome) IN
    IF result.status = "raised" THEN result
    ELSE Returned(JStr(json_dumps(result.val)), result.log)

SchemaTypes(result) == Get(Get(result, K_schema), K_types).items

\* built-in names (those starting with "_") filtered out
get_type_names_SkipBuiltin(outcome) ==
    LET result == execute_query(NamesIntrospectionQuery, outcome)
        NotBuiltin(type_) == Head(Get(type_, K_name).s) # "_"
    IN  IF result.status = "raised" THEN result
        ELSE LET types == SelectSeq(SchemaTypes(result.val), NotBuiltin) IN
             Returned(JList([i \in 1..Len(types) |-> Get(types[i], K_name)]), result.log)

\* GraphQLAPIWrapper.get_type_names
get_type_names(outcome) ==
    LET result == execute_query(NamesIntrospectionQuery, outcome) IN
    IF result.status = "raised" THEN result
    ELSE LET types == SchemaTypes(result.val) IN
         Returned(JList([i \in 1..Len(types) |-> Get(types[i], K_name)]), result.log)

\* the fallback to ofType left out
FieldTypeName_DirectOnly(field) == Get(Get(field, K_type), K_name)

\* field['type']['name'] or (field['type']['ofType']['name'] if field['type']['ofType'] else None)
FieldTypeName(field) ==
    LET type == Get(field, K_type) IN
    PyOr(Get(type, K_name),
         IF Truthy(Get(type, K_ofType)) THEN Get(Get(type, K_ofType), K_name) ELSE JNull)

FieldSummary(field) ==
    JDict(<<Pair(K_name, Get(field, K_name)), Pair(K_type, FieldTypeName(field))>>)

\* the 'fields' entry of one type's summary; iterating None is a TypeError
FieldsSummary(type_) ==
    IF HasKey(type_, K_fields)
    THEN LET fields == Get(type_, K_fields) IN
         IF fields.k = "list"
         THEN Returned(JList([i \in 1..Len(fields.items) |-> FieldSummary(fields.items[i])]), <<>>)
         ELSE Raised("TypeError", <<>>)
    ELSE Returned(JList(<<>>), <<>>)

\* x in type_names, for a list of str
InList(x, type_names) == \E i \in 1..Len(type_names) : type_names[i] = x

\* the loop of get_type_info over result['__schema']['types'], from entry i
RECURSIVE TypeInfoLoop(_, _, _, _)
TypeInfoLoop(types, i, type_names, type_info) ==
    IF i > Len(types) THEN Returned(type_info, <<>>)
    ELSE IF InList(Get(types[i], K_name), type_names)
    THEN LET fields == FieldsSummary(types[i]) IN
         IF fields.status = "raised" THEN fields
         ELSE TypeInfoLoop(types, i + 1, type_names,
                  DictSet(type_info, Get(types[i], K_name).s,
                          JDict(<<Pair(K_kind, Get(types[i], K_kind)),
                                  Pair(K_fields, fields.val)>>)))
    ELSE TypeInfoLoop(types, i + 1, type_names, type_info)

\* GraphQLAPIWrapper.get_type_info
get_type_info(type_names, outcome) ==
    LET result == execute_query(TypesIntrospectionQuery, outcome) IN
    IF result.status = "raised" THEN result
    ELSE LET type_info == TypeInfoLoop(SchemaTypes(result.val), 1, type_names, JDict(<<>>)) IN
         [type_info EXCEPT !.log = result.log]

-----------------------------------------------------------------------------
(* The tools *)

WhiteSpace == {" ", "\t", "\n", "\r"}

\* str.split(","): cut at the first comma, then split the rest
RECURSIVE Split(_)
Split(s) ==
    IF \E p \in 1..Len(s) : s[p] = ","
    THEN LET p == CHOOSE q \in 1..Len(s) : s[q] = "," /\ \A r \in 1..(q - 1) : s[r] # ","
         IN  <<SubSeq(s, 1, p - 1)>> \o Split(SubSeq(s, p + 1, Len(s)))
    ELSE <<s>>

RECURSIVE LStrip(_)
LStrip(s) == IF s # <<>> /\ Head(s) \in WhiteSpace THEN LStrip(Tail(s)) ELSE s

RECURSIVE RStrip(_)
RStrip(s) ==
    IF s # <<>> /\ s[Len(s)] \in WhiteSpace THEN RStrip(SubSeq(s, 1, Len(s) - 1)) ELSE s

\* str.strip()
Strip(s) == RStrip(LStrip(s))

\* a facade call made by a tool: the call and what came back go on the log
Facade(name, arg, r) ==
    [r EXCEPT !.log = <<Event(name, arg)>> \o r.log
                      \o <<Event(IF r.status = "returned" THEN "returned" ELSE "raised",
                                 IF r.status = "returned" THEN r.val ELSE JStr(<<>>))>>]

\* QueryGraphQLTool._run
QueryGraphQLTool_run(tool_input, outcome) ==
    LET result == Facade("run", tool_input, run(tool_input, outcome)) IN
    IF result.status = "raised" THEN result
    ELSE Returned(JStr(json_dumps(result.val)), result.log)

\* the asynchronous path falling back to the synchronous one
QueryGraphQLTool_arun_Sync(tool_input) ==
    QueryGraphQLTool_run(tool_input, Ok(JDict(<<>>)))

\* QueryGraphQLTool._arun
QueryGraphQLTool_arun(tool_input) == Raised("NotImplementedError", <<>>)

\* ListTablesGraphQLTool._run
ListTablesGraphQLTool_run(tool_input, outcome) ==
    LET names == Facade("get_type_names", JNull, get_type_names(outcome)) IN
    IF names.status = "raised" THEN names
    ELSE Returned(JStr(Join(CommaSpace,
                            [i \in 1..Len(names.val.items) |-> names.val.items[i].s])),
                  names.log)

\* ListTablesGraphQLTool._arun
ListTablesGraphQLTool_arun(tool_input) == Raised("NotImplementedError", <<>>)

\* the pieces passed on as they are cut, white space and all
SchemaGraphQLTool_run_NoStrip(type_names, outcome) ==
    LET segments == Split(type_names)
        types == [i \in 1..Len(segments) |-> JStr(segments[i])]
        info == Facade("get_type_info", JList(types), get_type_info(types, outcome))
    IN  IF info.status = "raised" THEN info
        ELSE Returned(JStr(json_dumps(info.val)), info.log)

\* SchemaGraphQLTool._run
SchemaGraphQLTool_run(type_names, outcome) ==
    LET segments == Split(type_names)
        types == [i \in 1..Len(segments) |-> JStr(Strip(segments[i]))]
        info == Facade("get_type_info", JList(types), get_type_info(types, outcome))
    IN  IF info.status = "raised" THEN info
        ELSE Returned(JStr(json_dumps(info.val)), info.log)

\* SchemaGraphQLTool._arun
SchemaGraphQLTool_arun(type_name) == Raised("NotImplementedError", <<>>)

\* the prompt of the chain QueryCheckerTool builds when it is given none
DefaultChain == [template |-> "QUERY_CHECKER", input_variables |-> <<"query">>]

\* the check of the input variables left out
initialize_llm_chain_NoCheck(values) ==
    Returned(IF ~values.has_llm_chain
             THEN [template |-> "QUERY_CHECKER", input_variables |-> <<"query">>]
             ELSE values.llm_chain, <<>>)

\* QueryCheckerTool.initialize_llm_chain; values is the constructor's keyword
\* arguments: whether llm_chain is among them, and the chain given
initialize_llm_chain(values) ==
    LET llm_chain == IF ~values.has_llm_chain THEN DefaultChain ELSE values.llm_chain IN
    IF llm_chain.input_variables # <<"query">>
    THEN Raised("ValueError", <<>>)
    ELSE Returned(llm_chain, <<>>)

\* QueryCheckerTool._run: llm_chain.predict(query=query), the model answering text
QueryCheckerTool_run(llm_chain, query, text) ==
    Returned(text, <<Event("predict", [template |-> llm_chain.template, query |-> query])>>)

\* QueryCheckerTool._arun: await llm_chain.apredict(query=query)
QueryCheckerTool_arun(llm_chain, query, text) ==
    Returned(text, <<Event("apredict", [template |-> llm_chain.template, query |-> query])>>)

-----------------------------------------------------------------------------
(* The inputs and the endpoint's answers the model draws from *)

SeqsUpTo(S, n) == UNION {[1..m -> S] : m \in 0..n}

Endpoints == {"https://a.example/graphql", "https://b.example/graphql"}
NoHeaders == "None"

UserQueries == {ExampleQuery, "query { me { id } }", MalformedQuery}

\* results of a user query: {}, null and text members (with characters json
\* escapes), nested lists and dicts
QueryResults ==
    { JDict(<<>>),
      JDict(<<Pair(<<"a">>, JNull)>>),
      JDict(<<Pair(<<"a">>, JStr(<<"x">>))>>),
      JDict(<<Pair(<<"a">>, JStr(<<"q", "\"", "\\", "\n">>))>>),
      JDict(<<Pair(<<"a">>, JList(<<JStr(<<"x">>), JNull>>)), Pair(<<"b">>, JDict(<<>>))>>),
      JDict(<<Pair(<<"a">>, JDict(<<Pair(<<"b">>, JList(<<>>))>>))>>) }

QueryOutcomes == {Ok(r) : r \in QueryResults} \cup {Failure(e) : e \in TransportFailures}

SchemaResult(types) == JDict(<<Pair(K_schema, JDict(<<Pair(K_types, JList(types))>>))>>)

N_U == <<"U">>
N_P == <<"P">>
N_Builtin == <<"_", "_", "T">>
N_String == <<"S">>
N_Int == <<"I">>
KindObject == <<"O", "B", "J", "E", "C", "T">>
KindScalar == <<"S", "C", "A", "L", "A", "R">>
KindNonNull == <<"N", "O", "N", "_", "N", "U", "L", "L">>

\* answers to the names introspection query: duplicates and built-in names occur
NameEntry(n) == JDict(<<Pair(K_name, JStr(n))>>)
NameOutcomes ==
    {Ok(SchemaResult(ts)) : ts \in SeqsUpTo({NameEntry(n) : n \in {N_U, N_P, N_Builtin}}, MaxTypes)}
    \cup {Failure(e) : e \in TransportFailures}

\* type { name kind ofType { name kind } } of a field
TypeRef(name, kind, ofType) ==
    JDict(<<Pair(K_name, name), Pair(K_kind, JStr(kind)), Pair(K_ofType, ofType)>>)
InnerType(name, kind) == JDict(<<Pair(K_name, name), Pair(K_kind, JStr(kind))>>)

Ref_Named == TypeRef(JStr(N_String), KindScalar, JNull)
Ref_Wrapped == TypeRef(JNull, KindNonNull, InnerType(JStr(N_Int), KindScalar))
Ref_Deep == TypeRef(JNull, KindNonNull, InnerType(JNull, KindNonNull))
Ref_Bare == TypeRef(JNull, KindNonNull, JNull)
TypeRefs == {Ref_Named, Ref_Wrapped, Ref_Deep, Ref_Bare}

FieldName(i) == [j \in 1..i |-> "f"]
FieldEntry(i, ref) == JDict(<<Pair(K_name, JStr(FieldName(i))), Pair(K_type, ref)>>)

\* the lists of exactly k fields
FieldLists(k) == {[i \in 1..k |-> FieldEntry(i, f[i])] : f \in [1..k -> TypeRefs]}

TypeEntry(n, kind, rest) ==
    JDict(<<Pair(K_name, JStr(n)), Pair(K_kind, JStr(kind))>> \o rest)

\* the types named n with k fields; a type with none has an empty list, null
\* or no 'fields' key
TypeEntriesWith(n, k) ==
    {TypeEntry(n, KindObject, <<Pair(K_fields, JList(fl))>>) : fl \in FieldLists(k)}
    \cup (IF k = 0
          THEN {TypeEntry(n, KindScalar, <<Pair(K_fields, JNull)>>),
                TypeEntry(n, KindScalar, <<>>)}
          ELSE {})

\* the names of a schema's types are unique: U, P, QQQ, QQQQ, ...
TypeNameAt(i) ==
    IF i = 1 THEN N_U ELSE IF i = 2 THEN N_P ELSE [j \in 1..i |-> "Q"]

\* the lists of exactly n types with at most f fields in all
RECURSIVE TypeLists(_, _)
TypeLists(n, f) ==
    IF n = 0 THEN {<<>>}
    ELSE UNION {{Append(rest, t) : rest \in TypeLists(n - 1, f - k),
                                   t \in TypeEntriesWith(TypeNameAt(n), k)} :
                    k \in 0..f}

TypeOutcomes ==
    {Ok(SchemaResult(ts)) : ts \in UNION {TypeLists(n, MaxFields) : n \in 0..MaxTypes}}
    \cup {Failure(e) : e \in TransportFailures}

\* inputs of the schema tool: "", "U", "P", " U , P ", "P,U", "M,U", "M",
\* "U ,<tab>P<newline>", "U,,P", " , ", "U P"
SchemaInputs ==
    { <<>>,
      <<"U">>,
      <<"P">>,
      <<" ", "U", " ", ",", " ", "P", " ">>,
      <<"P", ",", "U">>,
      <<"M", ",", "U">>,
      <<"M">>,
      <<"U", " ", ",", "\t", "P", "\n">>,
      <<"U", ",", ",", "P">>,
      <<" ", ",", " ">>,
      <<"U", " ", "P">> }

ListInputs == {<<>>, <<"U">>}

ModelTexts == {ExampleQuery, "The query is correct."}

ChainVarLists == SeqsUpTo({"query", "question"}, MaxVars)

ConstructorValues ==
    {[has_llm_chain |-> FALSE, llm_chain |-> DefaultChain]}
    \cup {[has_llm_chain |-> TRUE,
           llm_chain |-> [template |-> t, input_variables |-> vs]] :
            t \in {"QUERY_CHECKER", "CUSTOM"}, vs \in ChainVarLists}

-----------------------------------------------------------------------------
(* The state machine: one tool call at a time, each call one action *)

Idle == [tool |-> "none", mode |-> "none", input |-> "none", outcome |-> Failure("none"),
         status |-> "none", error |-> "None", ret |-> JNull]

Called(tool, mode, input, outcome, r) ==
    [tool |-> tool, mode |-> mode, input |-> input, outcome |-> outcome,
     status |-> r.status, error |-> r.error, ret |-> r.val]

NoChecker == [status |-> "none", llm_chain |-> DefaultChain]

Init ==
    /\ graphql_endpoint \in Endpoints
    /\ custom_headers = NoHeaders
    /\ call = Idle
    /\ log = <<>>
    /\ checker = NoChecker

Finish(tool, mode, input, outcome, r) ==
    /\ call' = Called(tool, mode, input, outcome, r)
    /\ log' = r.log
    /\ UNCHANGED <<graphql_endpoint, custom_headers, checker>>

QueryRun ==
    /\ call.tool = "none"
    /\ \E q \in UserQueries, o \in QueryOutcomes :
        /\ Finish("QueryGraphQLTool", "sync", q, o, QueryGraphQLTool_run(q, o))

QueryArun ==
    /\ call.tool = "none"
    /\ \E q \in UserQueries :
        /\ Finish("QueryGraphQLTool", "async", q, Failure("none"), QueryGraphQLTool_arun(q))

ListRun ==
    /\ call.tool = "none"
    /\ \E t \in ListInputs, o \in NameOutcomes :
        /\ Finish("ListTablesGraphQLTool", "sync", t, o, ListTablesGraphQLTool_run(t, o))

ListArun ==
    /\ call.tool = "none"
    /\ \E t \in ListInputs :
        /\ Finish("ListTablesGraphQLTool", "async", t, Failure("none"),
                  ListTablesGraphQLTool_arun(t))

SchemaRun ==
    /\ call.tool = "none"
    /\ \E t \in SchemaInputs, o \in TypeOutcomes :
        /\ Finish("SchemaGraphQLTool", "sync", t, o, SchemaGraphQLTool_run(t, o))

SchemaArun ==
    /\ call.tool = "none"
    /\ \E t \in SchemaInputs :
        /\ Finish("SchemaGraphQLTool", "async", t, Failure("none"), SchemaGraphQLTool_arun(t))

\* QueryCheckerTool(...): the root validator decides whether there is a tool
CheckerConstruct ==
    /\ call.tool = "none"
    /\ \E values \in ConstructorValues :
        /\ LET r == initialize_llm_chain(values) IN
            /\ call' = Called("QueryCheckerTool", "construct", values, Failure("none"),
                              [r EXCEPT !.val = JNull])
            /\ log' = r.log
            /\ checker' = IF r.status = "returned"
                          THEN [status |-> "constructed", llm_chain |-> r.val]
                          ELSE [status |-> "failed", llm_chain |-> values.llm_chain]
        /\ UNCHANGED <<graphql_endpoint, custom_headers>>

CheckerRun ==
    /\ call.tool = "none"
    /\ checker.status = "constructed"
    /\ \E q \in UserQueries, text \in ModelTexts :
        /\ Finish("QueryCheckerTool", "sync", q, Ok(text),
                  QueryCheckerTool_run(checker.llm_chain, q, text))

CheckerArun ==
    /\ call.tool = "none"
    /\ checker.status = "constructed"
    /\ \E q \in UserQueries, text \in ModelTexts :
        /\ Finish("QueryCheckerTool", "async", q, Ok(text),
                  QueryCheckerTool_arun(checker.llm_chain, q, text))

\* the caller takes the result (or the exception); the next call may start
Return ==
    /\ call.tool # "none"
    /\ call' = Idle
    /\ log' = <<>>
    /\ UNCHANGED <<graphql_endpoint, custom_headers, checker>>

\* the wrapper and its three tools
Next ==
    \/ QueryRun
    \/ QueryArun
    \/ ListRun
    \/ ListArun
    \/ SchemaRun
    \/ SchemaArun
    \/ Return

Spec == Init /\ [][Next]_vars

\* the query checker tool, next to the asynchronous paths of the other three
NextTools ==
    \/ CheckerConstruct
    \/ CheckerRun
    \/ CheckerArun
    \/ QueryArun
    \/ ListArun
    \/ SchemaArun
    \/ Return

SpecTools == Init /\ [][NextTools]_vars

-----------------------------------------------------------------------------
(* Reading a call back from the state *)

IsCall(tool, mode) == call.tool = tool /\ call.mode = mode

FacadeTools == {"QueryGraphQLTool", "ListTablesGraphQLTool", "SchemaGraphQLTool"}

CountOps(op) == Cardinality({i \in 1..Len(log) : log[i].op = op})

\* the facade method returned (and did not raise) during the call
FacadeReturned == log # <<>> /\ log[Len(log)].op = "returned"

\* what it returned
FacadeValue == log[Len(log)].arg

\* what the endpoint answered the introspection query with
AnsweredTypes == SchemaTypes(call.outcome.result)

\* the names the schema tool asked the facade about
RequestedNames == {log[1].arg.items[i].s : i \in 1..Len(log[1].arg.items)}

TypeNamed(n) == CHOOSE i \in 1..Len(AnsweredTypes) : Get(AnsweredTypes[i], K_name).s = n

SchemaAnswered == IsCall("SchemaGraphQLTool", "sync") /\ call.outcome.kind = "ok"

\* the types of the answer that were asked for
RequestedTypes ==
    {i \in 1..Len(AnsweredTypes) : Get(AnsweredTypes[i], K_name).s \in RequestedNames}

FieldsOf(type_) ==
    IF HasKey(type_, K_fields) /\ Get(type_, K_fields).k = "list"
    THEN Get(type_, K_fields).items
    ELSE <<>>

-----------------------------------------------------------------------------

(* C1: the text the query tool returns is JSON whose single parse is the   *)
(* result the endpoint returned                                            *)
C1_QueryOutputRoundTrips ==
    (IsCall("QueryGraphQLTool", "sync") /\ call.status = "returned") =>
        LET parsed == json_loads(call.ret.s) IN
        parsed.ok /\ parsed.v = call.outcome.result

-----------------------------------------------------------------------------

ExpectedFieldType(ref) ==
    LET direct == Get(ref, K_name)
        inner == Get(ref, K_ofType)
    IN  IF direct # JNull THEN direct
        ELSE IF inner # JNull THEN Get(inner, K_name)
        ELSE JNull

(* C2: every field of every type get_type_info returns carries the field's *)
(* own type name when it has one, else the name of the type it directly    *)
(* wraps when it wraps one, else null; a wrapper of a wrapper is null      *)
C2_FieldTypeResolution ==
    (IsCall("SchemaGraphQLTool", "sync") /\ FacadeReturned) =>
        \A e \in 1..Len(FacadeValue.items) :
            LET source == FieldsOf(AnsweredTypes[TypeNamed(FacadeValue.items[e].key)])
                summary == Get(FacadeValue.items[e].val, K_fields).items
            IN  /\ Len(summary) = Len(source)
                /\ \A i \in 1..Len(source) :
                    /\ Get(summary[i], K_name) = Get(source[i], K_name)
                    /\ Get(summary[i], K_type) = ExpectedFieldType(Get(source[i], K_type))
                    /\ Get(source[i], K_type) = Ref_Named => Get(summary[i], K_type) = JStr(N_String)
                    /\ Get(source[i], K_type) = Ref_Wrapped => Get(summary[i], K_type) = JStr(N_Int)
                    /\ Get(source[i], K_type) = Ref_Deep => Get(summary[i], K_type) = JNull

C2_Witness ==
    /\ IsCall("SchemaGraphQLTool", "sync")
    /\ FacadeReturned
    /\ \E e \in 1..Len(FacadeValue.items) :
        /\ FieldsOf(AnsweredTypes[TypeNamed(FacadeValue.items[e].key)])
            = <<FieldEntry(1, Ref_Wrapped), FieldEntry(2, Ref_Deep)>>
        /\ Get(FacadeValue.items[e].val, K_fields)
            = JList(<<JDict(<<Pair(K_name, JStr(FieldName(1))), Pair(K_type, JStr(N_Int))>>),
                      JDict(<<Pair(K_name, JStr(FieldName(2))), Pair(K_type, JNull)>>)>>)

-----------------------------------------------------------------------------

HasBareField(type_) ==
    \E i \in 1..Len(FieldsOf(type_)) : Get(FieldsOf(type_)[i], K_type) = Ref_Bare

(* C3: whenever a requested type has a field with neither a type name nor  *)
(* an ofType, get_type_info returns, and reports that field's type as null *)
C3_BareFieldNeverRaises ==
    (SchemaAnswered /\ \E t \in RequestedTypes : HasBareField(AnsweredTypes[t])) =>
        /\ FacadeReturned
        /\ call.status = "returned"
        /\ \A t \in RequestedTypes :
            LET n == Get(AnsweredTypes[t], K_name).s
                source == FieldsOf(AnsweredTypes[t])
            IN  /\ HasKey(FacadeValue, n)
                /\ \A i \in 1..Len(source) :
                    Get(source[i], K_type) = Ref_Bare =>
                        Get(Get(Get(FacadeValue, n), K_fields).items[i], K_type) = JNull

-----------------------------------------------------------------------------

AnsweredNames == {Get(AnsweredTypes[i], K_name).s : i \in 1..Len(AnsweredTypes)}

(* C4: the keys of the mapping get_type_info returns are exactly the       *)
(* requested names that are names of types of the schema                   *)
C4_KeysAreRequestedAndPresent ==
    SchemaAnswered =>
        /\ FacadeReturned
        /\ call.status = "returned"
        /\ {FacadeValue.items[e].key : e \in 1..Len(FacadeValue.items)}
            = RequestedNames \cap AnsweredNames

-----------------------------------------------------------------------------

NoUsableFields(type_) == ~HasKey(type_, K_fields) \/ Get(type_, K_fields) = JNull

(* C5: a requested type the answer gives no usable fields for (no 'fields' *)
(* key, or null as a scalar or an enum has) does not make get_type_info    *)
(* raise, and its summary is its kind with an empty list of fields         *)
C5_TypeWithoutFieldsIsEmpty ==
    SchemaAnswered =>
        \A t \in RequestedTypes :
            NoUsableFields(AnsweredTypes[t]) =>
                /\ FacadeReturned
                /\ Get(FacadeValue, Get(AnsweredTypes[t], K_name).s)
                    = JDict(<<Pair(K_kind, Get(AnsweredTypes[t], K_kind)),
                              Pair(K_fields, JList(<<>>))>>)

-----------------------------------------------------------------------------

RECURSIVE OffsetOf(_, _)
OffsetOf(names, i) == IF i = 1 THEN 0 ELSE OffsetOf(names, i - 1) + Len(names[i - 1]) + 2

\* text is the names, each followed by ", " except the last
IsJoinedByCommaSpace(text, names) ==
    IF names = <<>> THEN text = <<>>
    ELSE /\ Len(text) = OffsetOf(names, Len(names)) + Len(names[Len(names)])
         /\ \A i \in 1..Len(names) :
                /\ SubSeq(text, OffsetOf(names, i) + 1, OffsetOf(names, i) + Len(names[i]))
                    = names[i]
                /\ i < Len(names) =>
                    /\ text[OffsetOf(names, i) + Len(names[i]) + 1] = ","
                    /\ text[OffsetOf(names, i) + Len(names[i]) + 2] = " "

(* C6: get_type_names returns the name of every entry of __schema.types,   *)
(* as many and in the order the endpoint gave them, duplicates and         *)
(* built-in names kept; the list tool returns them joined by ", ",         *)
(* whatever its input                                                      *)
C6_ListTypeNames ==
    (IsCall("ListTablesGraphQLTool", "sync") /\ call.outcome.kind = "ok") =>
        /\ FacadeReturned
        /\ FacadeValue.k = "list"
        /\ Len(FacadeValue.items) = Len(AnsweredTypes)
        /\ \A i \in 1..Len(AnsweredTypes) :
            FacadeValue.items[i] = Get(AnsweredTypes[i], K_name)
        /\ call.status = "returned"
        /\ IsJoinedByCommaSpace(call.ret.s,
               [i \in 1..Len(AnsweredTypes) |-> Get(AnsweredTypes[i], K_name).s])

C6_Witness ==
    /\ IsCall("ListTablesGraphQLTool", "sync")
    /\ call.input = <<"U">>
    /\ call.outcome.kind = "ok"
    /\ AnsweredTypes = <<NameEntry(N_Builtin), NameEntry(N_Builtin)>>
    /\ call.ret = JStr(<<"_", "_", "T", ",", " ", "_", "_", "T">>)

-----------------------------------------------------------------------------

CommaPositions(s) == {p \in 1..Len(s) : s[p] = ","}

\* the position before piece i + 1: 0, then the commas, then the end
Boundary(s, i) ==
    IF i = 0 THEN 0
    ELSE IF i = Cardinality(CommaPositions(s)) + 1 THEN Len(s) + 1
    ELSE CHOOSE p \in CommaPositions(s) :
            Cardinality({q \in CommaPositions(s) : q <= p}) = i

Piece(s, i) == SubSeq(s, Boundary(s, i - 1) + 1, Boundary(s, i) - 1)

Trimmed(s) ==
    LET keep == {p \in 1..Len(s) : s[p] \notin {" ", "\t", "\n", "\r"}} IN
    IF keep = {} THEN <<>>
    ELSE SubSeq(s, CHOOSE p \in keep : \A q \in keep : p <= q,
                   CHOOSE p \in keep : \A q \in keep : q <= p)

(* C7: the schema tool cuts its input at the commas, strips the white      *)
(* space around each piece, asks get_type_info about exactly those names   *)
(* in that order, and returns the 2-space-indented JSON of the mapping     *)
(* get_type_info returned                                                  *)
C7_SchemaToolSplitsAndTrims ==
    IsCall("SchemaGraphQLTool", "sync") =>
        /\ CountOps("get_type_info") = 1
        /\ log[1] = Event("get_type_info",
                          JList([i \in 1..(Cardinality(CommaPositions(call.input)) + 1) |->
                                    JStr(Trimmed(Piece(call.input, i)))]))
        /\ FacadeReturned =>
            /\ call.status = "returned"
            /\ call.ret = JStr(json_dumps(FacadeValue))
            /\ json_loads(call.ret.s) = ParseOk(FacadeValue, Len(call.ret.s) + 1)
        /\ ~FacadeReturned => call.status = "raised"

C7_Witness ==
    /\ IsCall("SchemaGraphQLTool", "sync")
    /\ call.input = <<" ", "U", " ", ",", " ", "P", " ">>
    /\ log[1].arg = JList(<<JStr(<<"U">>), JStr(<<"P">>)>>)
    /\ call.status = "returned"
    /\ Len(FacadeValue.items) = 2

-----------------------------------------------------------------------------

(* C8: the asynchronous path of the query, list and schema tools raises    *)
(* NotImplementedError: it returns nothing and calls neither the facade    *)
(* nor the endpoint; only the query checker's asynchronous path returns,   *)
(* and what it returns is the text of the model's asynchronous prediction  *)
C8_AsyncPaths ==
    call.mode = "async" =>
        /\ call.tool \in FacadeTools =>
            /\ call.status = "raised"
            /\ call.error = "NotImplementedError"
            /\ call.ret = JNull
            /\ log = <<>>
        /\ call.status = "returned" => call.tool = "QueryCheckerTool"
        /\ call.tool = "QueryCheckerTool" =>
            /\ call.status = "returned"
            /\ call.ret = call.outcome.result
            /\ Len(log) = 1
            /\ log[1].op = "apredict"
            /\ log[1].arg.query = call.input

C8_Witness ==
    /\ IsCall("SchemaGraphQLTool", "async")
    /\ call.status = "raised"
    /\ call.error = "NotImplementedError"

-----------------------------------------------------------------------------

(* C9: a query checker exists only with a chain whose input variables are  *)
(* exactly ["query"]: built from the fixed template when none is given,    *)
(* refused with ValueError when the given chain declares anything else,    *)
(* and refused before any prediction is asked of the model                 *)
C9_CheckerConstruction ==
    /\ checker.status = "constructed" => checker.llm_chain.input_variables = <<"query">>
    /\ IsCall("QueryCheckerTool", "construct") =>
        /\ log = <<>>
        /\ ~call.input.has_llm_chain =>
            /\ call.status = "returned"
            /\ checker = [status |-> "constructed",
                          llm_chain |-> [template |-> "QUERY_CHECKER",
                                         input_variables |-> <<"query">>]]
        /\ (call.input.has_llm_chain
            /\ call.input.llm_chain.input_variables # <<"query">>) =>
            /\ call.status = "raised"
            /\ call.error = "ValueError"
            /\ checker.status = "failed"
        /\ (call.input.has_llm_chain
            /\ call.input.llm_chain.input_variables = <<"query">>) =>
            /\ call.status = "returned"
            /\ checker = [status |-> "constructed", llm_chain |-> call.input.llm_chain]
    /\ CountOps("predict") + CountOps("apredict") > 0 => checker.status = "constructed"

C9_Witness ==
    /\ IsCall("QueryCheckerTool", "construct")
    /\ call.input.has_llm_chain
    /\ call.input.llm_chain.input_variables = <<"question">>
    /\ call.status = "raised"
    /\ checker.status = "failed"

-----------------------------------------------------------------------------

QueryParses == ~(call.tool = "QueryGraphQLTool" /\ call.input = MalformedQuery)

OneExecutePerCall ==
    (call.tool \in FacadeTools /\ call.mode = "sync") =>
        /\ CountOps("gql") = 1
        /\ CountOps("execute") = (IF QueryParses THEN 1 ELSE 0)
        /\ ~QueryParses => (call.status = "raised" /\ call.error = "GraphQLSyntaxError")
        /\ (QueryParses /\ call.outcome.kind # "ok") =>
            /\ call.status = "raised"
            /\ call.error = call.outcome.kind
            /\ call.ret = JNull
        /\ call.status = "returned" => call.outcome.kind = "ok"

====
